---- MODULE Spec2Model ----
(***************************************************************************)
(* CReal request-orchestration core.                                       *)
(*                                                                         *)
(*   SpecCache : the background message router, ApiManager.analyzeArticle  *)
(*               and the StorageService on top of chrome.storage.local,    *)
(*               with several message handlers in flight at once.          *)
(*   SpecVideo : ApiManager.generateArticleVideo and the Veo client's       *)
(*               generateVideo: start, poll loop, resolve, download.       *)
(*   SpecUri   : getVideoUri applied to operation responses of every       *)
(*               shape its matchers look at.                               *)
(*                                                                         *)
(* JavaScript runs one task at a time: a handler runs without interruption *)
(* from one await to the next.  Every action below is therefore "the       *)
(* awaited call completes, and the handler runs on to its next await".     *)
(* A chrome.storage.local get/set takes effect at the step that completes  *)
(* it, or rejects.                                                         *)
(*                                                                         *)
(* Time is counted in hours (3 600 000 ms): the two horizons of the source *)
(* are whole hours, and 30 days in ms does not fit TLC's integers.         *)
(***************************************************************************)
EXTENDS Integers, Sequences, FiniteSets, TLC

\* ---------------------------------------------------------------- bounds
\* Message handlers that are started in one behaviour.
MaxCalls == 2
\* Times the clock advances in one behaviour.
MaxTicks == 1

\* Message handlers that are started in one behaviour over a store that
\* already holds records.
MaxSeededCalls == 1

\* Keys of one generateVideoResponse object.
MaxGenKeys == 2
\* generateArticleVideo calls made one after another in one behaviour.
MaxRuns == 2

\* ------------------------------------------------------ program constants
MAX_POLL_ATTEMPTS == 30
\* The delay of pollOperation's timer, in milliseconds.
POLL_INTERVAL_MS == 8000
\* 24 * 60 * 60 * 1000 ms, in hours.
CACHE_TTL_MS == 24
\* 30 * 24 * 60 * 60 * 1000 ms, in hours.
MAX_AGE_MS == 720
STORAGE_VERSION == 1

\* ------------------------------------------------------------ value sets
Calls == 1..MaxCalls

\* JS undefined, for the optional string fields of a payload.
Absent == "<undefined>"

Urls == {"https://a.test/1"}
\* Every identity key a request can have: a url, or the default 'unknown'.
Keys == Urls \cup {"unknown"}
\* Amounts by which the clock advances between two steps: the TTL, the purge
\* horizon, and an hour past the purge horizon.
TickSteps == {CACHE_TTL_MS, MAX_AGE_MS, MAX_AGE_MS + 1}

StoreError == "Error: storage failure"
AnalyzerError == "Error: analysis failed"
UnknownTypeError == "Error: Unknown message type: PING"

\* An object with no keys (data.articles = {}).
EmptyArticles == [k \in {} |-> k]

\* ------------------------------------------------------------- JS values
\* A JS value is a record tagged with its type.  A string is the sequence of its
\* characters, so that startsWith is computed; an object is the sequence of its
\* entries, in the order Object.keys gives; an array that the code only reads
\* at [0] holds at most that item.
Undefined == [type |-> "undefined"]
Str(chars) == [type |-> "string", chars |-> chars]
Arr(items) == [type |-> "array", items |-> items]
Entry(key, val) == [key |-> key, val |-> val]
Obj(entries) == [type |-> "object", entries |-> entries]

Bool(b) == [type |-> "boolean", val |-> b]

\* The truthiness of v: !!v
Truthy(v) ==
    CASE v.type = "string" -> v.chars # <<>>
      [] v.type = "boolean" -> v.val
      [] v.type \in {"object", "array"} -> TRUE
      [] OTHER -> FALSE

\* typeof v === 'string'
IsString(v) == v.type = "string"
\* v && typeof v === 'object'
IsObject(v) == v.type \in {"object", "array"}
\* Array.isArray(v)
IsArray(v) == v.type = "array"

\* v.key, and v?.key: undefined when v is no object or has no such key.
Get(v, key) ==
    IF v.type = "object" /\ \E i \in 1..Len(v.entries) : v.entries[i].key = key
    THEN v.entries[CHOOSE i \in 1..Len(v.entries) : v.entries[i].key = key].val
    ELSE Undefined

\* v[0]
First(v) == IF v.type = "array" /\ Len(v.items) > 0 THEN v.items[1] ELSE Undefined

\* a ?? b
Coalesce(a, b) == IF a.type = "undefined" THEN b ELSE a

\* s.startsWith(prefix), on character sequences
StartsWith(chars, prefix) ==
    Len(chars) >= Len(prefix) /\ SubSeq(chars, 1, Len(prefix)) = prefix

HttpPrefix == <<"h", "t", "t", "p">>
GsPrefix == <<"g", "s", ":", "/", "/">>

\* The strings a response can hold where a locator is looked for:
\* "https://a", "gs://b", and "n/a", which is no locator.
HttpsUri == Str(<<"h", "t", "t", "p", "s", ":", "/", "/", "a">>)
GsUri == Str(<<"g", "s", ":", "/", "/", "b">>)
NotAUri == Str(<<"n", "/", "a">>)
UriStrings == {HttpsUri, GsUri, NotAUri}

\* ------------------------------------------------------------ getVideoUri
Null == [type |-> "null"]

\* Path 1: generateVideoResponse.generatedSamples[0] (or generated_samples[0]):
\* its video.uri if that is a string, else its uri if that is a string.
Path1(response) ==
    LET gen == Get(response, "generateVideoResponse")
        samples == Coalesce(Get(gen, "generatedSamples"), Get(gen, "generated_samples"))
        firstSample == First(samples)
        video == Get(firstSample, "video")
        uri == Get(video, "uri")
        directUri == Get(firstSample, "uri")
    IN IF IsObject(gen) /\ IsArray(samples) /\ IsObject(firstSample)
       THEN IF IsObject(video) /\ IsString(uri) THEN uri
            ELSE IF IsString(directUri) THEN directUri
            ELSE Undefined
       ELSE Undefined

\* Path 2: generatedVideos[0].video.uri
Path2(response) ==
    LET generatedVideos == Get(response, "generatedVideos")
        uri2 == Get(Get(First(generatedVideos), "video"), "uri")
    IN IF IsArray(generatedVideos) /\ IsString(uri2) THEN uri2 ELSE Undefined

\* Path 3: videos[0].gcsUri ?? videos[0].uri
Path3(response) ==
    LET videos == Get(response, "videos")
        firstVideo == First(videos)
        gcsUri == Coalesce(Get(firstVideo, "gcsUri"), Get(firstVideo, "uri"))
    IN IF IsArray(videos) /\ IsString(gcsUri) THEN gcsUri ELSE Undefined

\* Path 4, for one key of generateVideoResponse: the value is a non-empty array
\* whose first item has a video.uri ?? uri that starts with http or gs://.
DeepUri(arr) ==
    LET first == First(arr)
        u == Coalesce(Get(Get(first, "video"), "uri"), Get(first, "uri"))
    IN IF /\ IsArray(arr) /\ Len(arr.items) > 0
          /\ IsObject(first)
          /\ IsString(u)
          /\ (StartsWith(u.chars, HttpPrefix) \/ StartsWith(u.chars, GsPrefix))
       THEN u
       ELSE Undefined

\* Path 4: the keys of generateVideoResponse in Object.keys order; the first
\* that yields a locator wins.
Path4(response) ==
    LET gen == Get(response, "generateVideoResponse")
        hits == IF gen.type = "object"
                THEN {i \in 1..Len(gen.entries) : IsString(DeepUri(gen.entries[i].val))}
                ELSE {}
    IN IF hits = {} THEN Undefined
       ELSE DeepUri(gen.entries[CHOOSE i \in hits : \A j \in hits : i <= j].val)

\* Path 5: response.uri
Path5(response) ==
    LET topLevelUri == Get(response, "uri")
    IN IF IsString(topLevelUri) THEN topLevelUri ELSE Undefined

\* The matchers in the order getVideoUri tries them.
Matchers(response) ==
    <<Path1(response), Path2(response), Path3(response), Path4(response),
      Path5(response)>>

\* getVideoUri with the matchers tried from the most generic one backwards.
getVideoUriGenericFirst(response) ==
    LET found == Matchers(response)
        hits == {i \in 1..Len(found) : IsString(found[i])}
    IN IF ~IsObject(response) \/ hits = {} THEN Null
       ELSE found[CHOOSE i \in hits : \A j \in hits : i >= j]

\* getVideoUri: the result of the first matcher that returns, null when none
\* does or the response is no object.
getVideoUri(response) ==
    LET found == Matchers(response)
        hits == {i \in 1..Len(found) : IsString(found[i])}
    IN IF ~IsObject(response) \/ hits = {} THEN Null
       ELSE found[CHOOSE i \in hits : \A j \in hits : i <= j]

\* ------------------------------------------------- operation responses
\* A sample's video: none, or an object with a uri.
VideoObjs == {Undefined} \cup {Obj(<<Entry("uri", u)>>) : u \in {HttpsUri, NotAUri}}
\* generatedSamples[0]: a video and a uri of its own.
SampleItems ==
    {Obj(<<Entry("video", v), Entry("uri", u)>>) :
        v \in VideoObjs, u \in {Undefined, GsUri, NotAUri}}
SampleArrays == {Arr(<<>>)} \cup {Arr(<<item>>) : item \in SampleItems}
GenKeys == {"generatedSamples", "generated_samples", "clips"}
\* The entries of a generateVideoResponse with n keys, in every key order.
GenEntries(n) ==
    {es \in [1..n -> [key : GenKeys, val : SampleArrays]] :
        \A i, j \in 1..n : i # j => es[i].key # es[j].key}
Gens ==
    {Undefined} \cup {Obj(es) : es \in UNION {GenEntries(n) : n \in 0..MaxGenKeys}}
GeneratedVideos ==
    {Undefined} \cup
    {Arr(<<Obj(<<Entry("video", Obj(<<Entry("uri", u)>>))>>)>>) : u \in {GsUri, NotAUri}}
Videos ==
    {Undefined,
     Arr(<<Obj(<<Entry("gcsUri", GsUri)>>)>>),
     Arr(<<Obj(<<Entry("uri", NotAUri)>>)>>)}
TopUris == {Undefined, HttpsUri, NotAUri}

\* An operation response: the four keys getVideoUri reads.
Response(gen, generatedVideos, videos, uri) ==
    Obj(<<Entry("generateVideoResponse", gen),
          Entry("generatedVideos", generatedVideos),
          Entry("videos", videos),
          Entry("uri", uri)>>)

Payloads ==
    {Response(g, gv, vs, u) :
        g \in Gens, gv \in GeneratedVideos, vs \in Videos, u \in TopUris}

NoPayloadYet == Obj(<<>>)
NotLocated == [type |-> "pending"]

VARIABLES
    opResponse, \* the operation response getVideoUri is given
    located,    \* what getVideoUri returned for it
    vpc,        \* the await generateArticleVideo is suspended at
    attempt,    \* pollOperation's loop counter i
    log,        \* the requests of generateVideo, as issued and as completed
    startData,  \* what the start fetch of startGeneration gave
    pollData,   \* what the last completed poll fetch gave
    timer,      \* the delay of the setTimeout pollOperation last called, 0: none
    quiet,      \* every poll so far answered ok, not done, without an error
    outcome,    \* what generateArticleVideo resolved or rejected with
    runs,       \* how many generateArticleVideo calls have been made
    earlier,    \* what the generateArticleVideo call before this one settled with
    now,        \* Date.now(), in hours
    ticks,      \* how often the clock advanced
    store,      \* chrome.storage.local[STORAGE_KEY]
    msg,        \* msg[c]: the message handler c is working on
    pc,         \* pc[c]: the await handler c is suspended at
    data,       \* data[c]: the StorageData.articles a storage method holds
    record,     \* record[c]: the ArticleRecord analyzeArticle built
    reply,      \* the sendResponse of the last step: to whom, for which message
    purge,      \* purge[c]: the clearOldAnalyses task handler c spawned
    purged,     \* the clearOldAnalyses that returned in the last step
    fault,      \* the chrome.storage.local call that rejected in the last step
    lost,       \* records a write of another cycle removed from the envelope
    calls       \* calls[c]: calls made by handler c (analyze, purge, sendResponse)

vars == <<opResponse, located, vpc, attempt, log, startData, pollData, timer, quiet, outcome, runs, earlier, now, ticks, store, msg, pc, data, record, reply, purge, purged, fault, lost, calls>>

\* ---------------------------------------------------------------- storage
\* chrome.storage.local holds nothing under STORAGE_KEY.
NoEnvelope == [present |-> FALSE, version |-> 0, articles |-> EmptyArticles]

\* The StorageData every setStorageData of the service writes.
Envelope(articles) ==
    [present |-> TRUE, version |-> STORAGE_VERSION, articles |-> articles]

\* What an earlier version of the extension left behind: an envelope of
\* another version that holds a record.
OlderEnvelope ==
    [present |-> TRUE, version |-> STORAGE_VERSION - 1,
     articles |-> [k \in Urls |->
                     [url |-> k, title |-> "Title", bias |-> 0,
                      timestamp |-> 0, cached |-> FALSE]]]

\* getStorageData without the version test.
getStorageDataAnyVersion(stored) ==
    IF ~stored.present THEN EmptyArticles ELSE stored.articles

\* StorageService.getStorageData: the articles of the stored envelope, or of a
\* fresh envelope when nothing is stored or the version differs.
getStorageData(stored) ==
    IF ~stored.present \/ stored.version # STORAGE_VERSION
    THEN EmptyArticles
    ELSE stored.articles

\* The assignment as a merge: the bias of a record already stored under
\* the url is kept.
PutArticleMerging(articles, rec) ==
    [k \in DOMAIN articles \cup {rec.url} |->
        IF k # rec.url THEN articles[k]
        ELSE IF k \in DOMAIN articles THEN [rec EXCEPT !.bias = articles[k].bias]
        ELSE rec]

\* data.articles[record.url] = record
PutArticle(articles, rec) ==
    [k \in DOMAIN articles \cup {rec.url} |->
        IF k = rec.url THEN rec ELSE articles[k]]

\* delete data.articles[url], for every url of a set
DeleteArticles(articles, urls) ==
    [k \in DOMAIN articles \ urls |-> articles[k]]

NullRecord == [kind |-> "null"]

\* data.articles[url] || null
Lookup(articles, url) ==
    IF url \in DOMAIN articles
    THEN [kind |-> "record", rec |-> articles[url]]
    ELSE NullRecord

\* getAnalysis without its catch: a failed read is thrown on.
getAnalysisUncaught(stored, url, ok) ==
    IF ok THEN Lookup(getStorageData(stored), url) ELSE [kind |-> "throw"]

\* StorageService.getAnalysis: the record stored under url, null when there is
\* none or when the read failed (the failure is caught).
getAnalysis(stored, url, ok) ==
    IF ok THEN Lookup(getStorageData(stored), url) ELSE NullRecord

\* OldUrls with the boundary included: a record of exactly the horizon is old.
OldUrlsInclusive(articles, t) ==
    {k \in DOMAIN articles : articles[k].timestamp <= t - MAX_AGE_MS}

\* The urls clearOldAnalyses deletes: record.timestamp < Date.now() - MAX_AGE_MS.
OldUrls(articles, t) ==
    {k \in DOMAIN articles : articles[k].timestamp < t - MAX_AGE_MS}

\* The comparator turned around: (a, b) => a.timestamp - b.timestamp.
SortedAnalysesAscending(articles) ==
    LET n == Cardinality(DOMAIN articles)
    IN {list \in [1..n -> {articles[k] : k \in DOMAIN articles}] :
          /\ \A i, j \in 1..n : i # j => list[i] # list[j]
          /\ \A i, j \in 1..n : i < j => list[i].timestamp <= list[j].timestamp}

\* Object.values(data.articles).sort((a, b) => b.timestamp - a.timestamp): the
\* records by descending timestamp.  Records of equal timestamp keep the order
\* of the object's keys, which the articles function does not carry: any order.
SortedAnalyses(articles) ==
    LET n == Cardinality(DOMAIN articles)
    IN {list \in [1..n -> {articles[k] : k \in DOMAIN articles}] :
          /\ \A i, j \in 1..n : i # j => list[i] # list[j]
          /\ \A i, j \in 1..n : i < j => list[i].timestamp >= list[j].timestamp}

\* ------------------------------------------------------------- api manager
\* A request without a url keyed by its own text instead of the shared default.
UrlOfOwnText(payload) == IF payload.url = Absent THEN "text" ELSE payload.url

\* The destructuring defaults of analyzeArticle's payload.
UrlOf(payload) == IF payload.url = Absent THEN "unknown" ELSE payload.url
TitleOf(payload) ==
    IF payload.title = Absent THEN "Untitled Article" ELSE payload.title

\* IsFresh with the comparison turned around: only records past the TTL count
\* as fresh.
IsFreshPastTtl(stored, t) ==
    stored.kind = "record" /\ t - stored.rec.timestamp >= CACHE_TTL_MS

\* IsFresh with the boundary included: a record of exactly the TTL is fresh.
IsFreshInclusive(stored, t) ==
    stored.kind = "record" /\ t - stored.rec.timestamp <= CACHE_TTL_MS

\* stored && Date.now() - stored.timestamp < CACHE_TTL_MS
IsFresh(stored, t) ==
    stored.kind = "record" /\ t - stored.rec.timestamp < CACHE_TTL_MS

\* The ANALYZE_ARTICLE payloads handler c can be given: with a url and a title,
\* or with neither.  The text is opaque to the core; every handler has its own.
AnalyzePayloads(c) ==
    {[text |-> c, url |-> u, title |-> "Title"] : u \in Urls}
    \cup {[text |-> c, url |-> Absent, title |-> Absent]}

\* The payload of GET_CACHED_ANALYSIS and DELETE_ARTICLE is the url itself; it
\* is kept in the url field so that all payloads have one shape.
UrlPayload(k) == [text |-> 0, url |-> k, title |-> Absent]
NoPayload == [text |-> 0, url |-> Absent, title |-> Absent]

\* The messages handler c can be started with; PING is a type the router does
\* not know.
Messages(c) ==
    {[type |-> "ANALYZE_ARTICLE", payload |-> p] : p \in AnalyzePayloads(c)}
    \cup {[type |-> t, payload |-> UrlPayload(k)] :
            t \in {"GET_CACHED_ANALYSIS", "DELETE_ARTICLE"}, k \in Urls}
    \cup {[type |-> t, payload |-> NoPayload] :
            t \in {"GET_ARTICLE_HISTORY", "CLEAR_HISTORY", "PING"}}

NoMsg == [type |-> "none", payload |-> NoPayload]
NoReply == [kind |-> "none"]
NoRecord == [url |-> Absent]
NoCalls == [analyze |-> 0, purge |-> 0]
NoSent == [to |-> 0, msg |-> NoMsg, value |-> NoReply, calls |-> NoCalls]
NoPurge == [pc |-> "none", data |-> EmptyArticles, removedCount |-> 0]
DonePurge == [pc |-> "done", data |-> EmptyArticles, removedCount |-> 0]
NoPurged == [by |-> 0, ret |-> 0, sets |-> 0]
NoFault == [by |-> 0, at |-> "none"]

ErrorReply(err) == [kind |-> "error", error |-> err]
ResultReply(bias, cached, timestamp) ==
    [kind |-> "result", bias |-> bias, cached |-> cached, timestamp |-> timestamp]
SuccessReply == [kind |-> "success", success |-> TRUE]
ListReply(list) == [kind |-> "list", list |-> list]

\* The listener's .then(sendResponse) / .catch(... sendResponse({error})) for
\* handler c, which ends with it: its locals are gone.  The response is shown
\* with the message it answers and the calls the handler made.
Respond(c, value) ==
    /\ pc' = [pc EXCEPT ![c] = "done"]
    /\ reply' = [to |-> c, msg |-> msg[c], value |-> value, calls |-> calls[c]]
    /\ msg' = [msg EXCEPT ![c] = NoMsg]
    /\ data' = [data EXCEPT ![c] = EmptyArticles]
    /\ record' = [record EXCEPT ![c] = NoRecord]
    /\ calls' = [calls EXCEPT ![c] = NoCalls]

\* clearOldAnalyses of handler c returns ret, after `sets` setStorageData calls.
PurgeReturns(c, ret, sets) ==
    /\ purge' = [purge EXCEPT ![c] = DonePurge]
    /\ purged' = [by |-> c, ret |-> ret, sets |-> sets]

\* The chrome.storage.local call handler c awaited at `at` resolves (ok) or
\* rejects.
StoreAccess(c, at, ok) == fault' = IF ok THEN NoFault ELSE [by |-> c, at |-> at]
\* A step that completes no chrome.storage.local call.
NoStoreAccess == fault' = NoFault

\* The bookkeeping of lost updates at a completed setStorageData that replaces
\* the envelope `before` by `after`.  A record of `before` that `after` does not
\* hold is lost unless the write removes or replaces it on purpose (its key is
\* in `deliberate`: the key saved or deleted, every key for a clear, the keys
\* past the horizon for a purge).  A record lost earlier stays lost until the
\* envelope holds it again or its key is settled by a later save, delete or
\* clear.
NextLost(before, after, deliberate, settled) ==
    LET old == getStorageData(before)
        new == getStorageData(after)
        dropped == {k \in DOMAIN old \ deliberate :
                       ~(k \in DOMAIN new /\ new[k] = old[k])}
        still == {k \in DOMAIN lost \ settled :
                     ~(k \in DOMAIN new /\ new[k] = lost[k])}
    IN [k \in dropped \cup still |-> IF k \in dropped THEN old[k] ELSE lost[k]]

\* A step in which no response is sent.
NoResponse == reply' = NoSent
\* A step in which no clearOldAnalyses returns.
NoPurgeReturn == purged' = NoPurged

\* getVideoUri(response)
ResolveUri ==
    /\ located = NotLocated
    /\ located' = getVideoUri(opResponse)
    /\ UNCHANGED opResponse

\* ---------------------------------------------------------- video pipeline
\* The operation responses a finished operation comes with: the documented
\* shape with an https locator, a Cloud Storage locator, a string that is no
\* locator, nothing that any matcher finds, and an empty string as the uri.
VideoResponses ==
    {Response(Obj(<<Entry("generatedSamples",
                          Arr(<<Obj(<<Entry("video", Obj(<<Entry("uri", u)>>)),
                                      Entry("uri", Undefined)>>)>>))>>),
              Undefined, Undefined, Undefined) : u \in UriStrings}
    \cup {Response(Undefined, Undefined, Undefined, Undefined),
          Response(Undefined, Undefined, Undefined, Str(<<>>))}

QuotaMessage == Str(<<"q", "u", "o", "t", "a">>)
\* data.error of a poll: absent, without a message, with an empty message,
\* with a message.
PollErrors ==
    {Undefined, Obj(<<>>), Obj(<<Entry("message", Str(<<>>))>>),
     Obj(<<Entry("message", QuotaMessage)>>)}
\* The JSON bodies of a poll: { done?, error?, response? }.
PollBodies ==
    {Obj(<<Entry("done", d), Entry("error", e), Entry("response", r)>>) :
        d \in {Undefined, Bool(FALSE), Bool(TRUE)},
        e \in PollErrors,
        r \in {Undefined} \cup VideoResponses}
\* What a fetch of the poll url gives: it rejects, or resolves with res.ok and
\* a body.
FetchRejected == [kind |-> "rejected", ok |-> FALSE, body |-> Undefined]
HttpError == [kind |-> "resolved", ok |-> FALSE, body |-> Undefined]
HttpOk(body) == [kind |-> "resolved", ok |-> TRUE, body |-> body]
PollResults == {FetchRejected, HttpError} \cup {HttpOk(b) : b \in PollBodies}
NoPoll == [kind |-> "none", ok |-> FALSE, body |-> Undefined]

\* data.name of the start response: absent, empty, no string, a name.
OperationName == Str(<<"o", "p">>)
StartBodies ==
    {Obj(<<Entry("name", n)>>) : n \in {Undefined, Str(<<>>), Bool(TRUE), OperationName}}
StartResults == {FetchRejected, HttpError} \cup {HttpOk(b) : b \in StartBodies}

\* blob.type of the downloaded video.
WebmType == Str(<<"w", "e", "b", "m">>)
Mp4Type == Str(<<"m", "p", "4">>)
DownloadResults ==
    {FetchRejected, HttpError} \cup {HttpOk(t) : t \in {Str(<<>>), WebmType}}

Pending == [kind |-> "pending", what |-> "", detail |-> Undefined]
Thrown(what, detail) == [kind |-> "error", what |-> what, detail |-> detail]
\* { videoBase64, mimeType }
VideoResult(mimeType) == [kind |-> "video", what |-> "", detail |-> mimeType]

\* The promise of generateArticleVideo settles.
Settle(result) ==
    /\ vpc' = "done"
    /\ outcome' = result

\* The loop without its bound: for (let i = 0; ; i++).
BudgetLeftAlways(i) == TRUE

\* The loop condition off by one: i <= MAX_POLL_ATTEMPTS.
BudgetLeftInclusive(i) == i <= MAX_POLL_ATTEMPTS

\* for (let i = 0; i < MAX_POLL_ATTEMPTS; i++)
BudgetLeft(i) == i < MAX_POLL_ATTEMPTS

\* The error test placed after the done test: a done body reports no error.
ReportsErrorUnlessDone(body) ==
    Truthy(Get(Get(body, "error"), "message")) /\ ~Truthy(Get(body, "done"))

\* data.error?.message is truthy
ReportsError(body) == Truthy(Get(Get(body, "error"), "message"))

\* The poll found the operation running: res.ok, no error thrown, not done.
StillRunning(res) ==
    /\ res.kind = "resolved" /\ res.ok
    /\ ~ReportsError(res.body)
    /\ ~Truthy(Get(res.body, "done"))

\* The poll answered ok and carried neither done nor an error of any form.
PlainPending(res) ==
    /\ StillRunning(res)
    /\ Get(res.body, "error") = Undefined

\* generateArticleVideo answering from the video of the call before it.
GenerateArticleVideoCached ==
    /\ vpc \in {"idle", "done"}
    /\ runs < MaxRuns
    /\ runs' = runs + 1
    /\ earlier' = outcome
    /\ IF outcome.kind = "video"
       THEN Settle(outcome)
       ELSE vpc' = "getApiKey" /\ outcome' = Pending
    /\ opResponse' = NoPayloadYet
    /\ located' = NotLocated
    /\ attempt' = 0
    /\ log' = <<>>
    /\ startData' = NoPoll
    /\ pollData' = NoPoll
    /\ timer' = 0
    /\ quiet' = TRUE

\* The message generateArticleVideo is started by.  A call keeps nothing of
\* the call before it; the calls of one behaviour all carry the same payload.
GenerateArticleVideo ==
    /\ vpc \in {"idle", "done"}
    /\ runs < MaxRuns
    /\ runs' = runs + 1
    /\ earlier' = outcome
    /\ vpc' = "getApiKey"
    /\ opResponse' = NoPayloadYet
    /\ located' = NotLocated
    /\ attempt' = 0
    /\ log' = <<>>
    /\ startData' = NoPoll
    /\ pollData' = NoPoll
    /\ timer' = 0
    /\ quiet' = TRUE
    /\ outcome' = Pending

\* await biasAnalyzer.getApiKey(): without a key the call throws.
GetApiKeyReturns(hasKey) ==
    /\ vpc = "getApiKey"
    /\ IF hasKey
       THEN vpc' = "prompt" /\ UNCHANGED outcome
       ELSE Settle(Thrown("No API key", Undefined))
    /\ UNCHANGED <<opResponse, located, attempt, log, startData, pollData, timer, quiet, runs, earlier>>

\* await generateVideoPrompt(...) returns; generateVideo calls startGeneration,
\* which issues the start request.
PromptReturns ==
    /\ vpc = "prompt"
    /\ vpc' = "start"
    /\ log' = Append(log, "start")
    /\ UNCHANGED <<opResponse, located, attempt, startData, pollData, timer, quiet, outcome, runs, earlier>>

PromptFails ==
    /\ vpc = "prompt"
    /\ Settle(Thrown("prompt failed", Undefined))
    /\ UNCHANGED <<opResponse, located, attempt, log, startData, pollData, timer, quiet, runs, earlier>>

\* The operation-name test without the type test.
MissingNameOnlyFalsy(name) == ~Truthy(name)

\* !name || typeof name !== 'string'
MissingName(name) == ~Truthy(name) \/ ~IsString(name)

\* startGeneration's fetch completes.  With an operation name pollOperation
\* starts its loop and issues the first poll.
StartReturns(res) ==
    /\ vpc = "start"
    /\ LET name == Get(res.body, "name") IN
       IF res.kind = "rejected" THEN
            /\ Settle(Thrown("fetch failed", Undefined))
            /\ UNCHANGED <<attempt, log>>
       ELSE IF ~res.ok THEN
            /\ Settle(Thrown("Veo start failed", Undefined))
            /\ UNCHANGED <<attempt, log>>
       ELSE IF MissingName(name) THEN
            /\ Settle(Thrown("Veo start: missing operation name", Undefined))
            /\ log' = Append(log, "start.done")
            /\ UNCHANGED attempt
       ELSE /\ attempt' = 0
            /\ IF BudgetLeft(0)
               THEN /\ vpc' = "poll"
                    /\ log' = log \o <<"start.done", "poll">>
                    /\ UNCHANGED outcome
               ELSE /\ Settle(Thrown("Veo generation timed out", Undefined))
                    /\ log' = Append(log, "start.done")
    /\ startData' = res
    /\ UNCHANGED <<opResponse, located, pollData, timer, quiet, runs, earlier>>

\* The missing-uri test as a comparison with null only.
MissingUriOnlyNull(uri) == uri = Null

\* if (!uri)
MissingUri(uri) == ~Truthy(uri)

\* The Cloud Storage test with the scheme misspelt: startsWith('gcs://').
IsGcsUriMisspelt(uri) == StartsWith(uri.chars, <<"g", "c", "s", ":", "/", "/">>)

\* uri.startsWith('gs://')
IsGcsUri(uri) == StartsWith(uri.chars, GsPrefix)

\* generateVideo issuing the download before it has resolved the locator.
DownloadBeforeResolve(response) ==
    LET uri == getVideoUri(response) IN
    /\ opResponse' = response
    /\ located' = uri
    /\ vpc' = "download"
    /\ log' = log \o <<"poll.done", "download", "resolve">>
    /\ UNCHANGED outcome

\* generateVideo after pollOperation returned response: getVideoUri, the two
\* checks on the uri, and the download request.
AfterPoll(response) ==
    LET uri == getVideoUri(response) IN
    /\ opResponse' = response
    /\ located' = uri
    /\ IF MissingUri(uri) THEN
            /\ Settle(Thrown("Veo response missing video URI", Undefined))
            /\ log' = log \o <<"poll.done", "resolve">>
       ELSE IF IsGcsUri(uri) THEN
            /\ Settle(Thrown("Veo returned a Cloud Storage URI", uri))
            /\ log' = log \o <<"poll.done", "resolve">>
       ELSE /\ vpc' = "download"
            /\ log' = log \o <<"poll.done", "resolve", "download">>
            /\ UNCHANGED outcome

\* The timer growing with the attempt number.
PollDelayBackoff(i) == POLL_INTERVAL_MS * (i + 1)

\* setTimeout(r, POLL_INTERVAL_MS) in iteration i of the loop
PollDelay(i) == POLL_INTERVAL_MS

\* pollOperation never looking at the status of the poll.
PollHttpFailedNever(res) == FALSE

\* if (!res.ok), on the poll's fetch
PollHttpFailed(res) == ~res.ok

\* One poll fetch of pollOperation completes.  While the operation is running
\* the timer is set.
PollReturns(res) ==
    /\ vpc = "poll"
    /\ pollData' = res
    /\ quiet' = (quiet /\ PlainPending(res))
    /\ timer' = IF StillRunning(res) THEN PollDelay(attempt) ELSE timer
    /\ UNCHANGED <<attempt, startData, runs, earlier>>
    /\ IF res.kind = "rejected" THEN
            /\ Settle(Thrown("fetch failed", Undefined))
            /\ UNCHANGED <<opResponse, located, log>>
       ELSE IF PollHttpFailed(res) THEN
            /\ Settle(Thrown("Veo poll failed", Undefined))
            /\ log' = Append(log, "poll.done")
            /\ UNCHANGED <<opResponse, located>>
       ELSE IF ReportsError(res.body) THEN
            /\ Settle(Thrown("Veo error", Get(Get(res.body, "error"), "message")))
            /\ log' = Append(log, "poll.done")
            /\ UNCHANGED <<opResponse, located>>
       ELSE IF Truthy(Get(res.body, "done")) THEN
            AfterPoll(Coalesce(Get(res.body, "response"), Obj(<<>>)))
       ELSE /\ vpc' = "wait"
            /\ log' = Append(log, "poll.done")
            /\ UNCHANGED <<opResponse, located, outcome>>

\* The POLL_INTERVAL_MS timer fires: i++, and the next poll if i is still in
\* the budget, else the timeout.
WaitElapses ==
    /\ vpc = "wait"
    /\ attempt' = attempt + 1
    /\ IF BudgetLeft(attempt + 1)
       THEN /\ vpc' = "poll"
            /\ log' = Append(log, "poll")
            /\ UNCHANGED outcome
       ELSE /\ Settle(Thrown("Veo generation timed out", Undefined))
            /\ UNCHANGED log
    /\ UNCHANGED <<opResponse, located, startData, pollData, timer, quiet, runs, earlier>>

\* downloadVideo's fetch completes.
DownloadReturns(res) ==
    /\ vpc = "download"
    /\ IF res.kind = "rejected" THEN
            /\ Settle(Thrown("fetch failed", Undefined))
            /\ UNCHANGED log
       ELSE IF ~res.ok THEN
            /\ Settle(Thrown("Veo download failed", Undefined))
            /\ log' = Append(log, "download.done")
       ELSE /\ Settle(VideoResult(IF Truthy(res.body) THEN res.body ELSE Mp4Type))
            /\ log' = Append(log, "download.done")
    /\ UNCHANGED <<opResponse, located, attempt, startData, pollData, timer, quiet, runs, earlier>>

videoVars == <<vpc, attempt, log, startData, pollData, timer, quiet, outcome, runs, earlier>>

cacheVars == <<now, ticks, store, msg, pc, data, record, reply, purge, purged, fault, lost, calls>>
uriVars == <<opResponse, located>>
otherVars == <<uriVars, videoVars>>

\* Time passes between two steps.
Tick(d) ==
    /\ ticks < MaxTicks
    /\ now' = now + d
    /\ ticks' = ticks + 1
    /\ NoResponse /\ NoPurgeReturn
    /\ NoStoreAccess
    /\ UNCHANGED <<lost, store, msg, pc, data, record, purge, calls>>

\* onMessage listener -> handleMessage: dispatch on message.type and run the
\* ApiManager method up to its first await, a chrome.storage.local.get or set.
Receive(c, m) ==
    /\ pc[c] = "idle"
    /\ \A d \in Calls : d < c => pc[d] # "idle"
    /\ m.type # "PING"
    /\ msg' = [msg EXCEPT ![c] = m]
    /\ pc' = [pc EXCEPT ![c] =
          CASE m.type = "ANALYZE_ARTICLE" -> "lookup"
            [] m.type = "GET_CACHED_ANALYSIS" -> "cachedRead"
            [] m.type = "GET_ARTICLE_HISTORY" -> "historyRead"
            [] m.type = "DELETE_ARTICLE" -> "deleteRead"
            [] m.type = "CLEAR_HISTORY" -> "clearWrite"]
    /\ NoResponse /\ NoPurgeReturn
    /\ NoStoreAccess
    /\ UNCHANGED <<lost, now, ticks, store, data, record, purge, calls>>

\* handleMessage's default case: an unknown type throws, which the listener
\* answers with {error}.
ReceiveUnknown(c, m) ==
    /\ pc[c] = "idle"
    /\ \A d \in Calls : d < c => pc[d] # "idle"
    /\ m.type = "PING"
    /\ pc' = [pc EXCEPT ![c] = "done"]
    /\ reply' = [to |-> c, msg |-> m, value |-> ErrorReply(UnknownTypeError),
                 calls |-> NoCalls]
    /\ NoPurgeReturn
    /\ NoStoreAccess
    /\ UNCHANGED <<lost, now, ticks, store, msg, data, record, purge, calls>>

\* analyzeArticle: getAnalysis completes (a store failure is caught in it and
\* yields null); a fresh record is returned, otherwise biasAnalyzer.analyze is
\* called.  analyzeArticle has no try/catch of its own: whatever an awaited
\* call throws rejects it.
AnalyzeLookup(c, ok) ==
    /\ pc[c] = "lookup"
    /\ LET stored == getAnalysis(store, UrlOf(msg[c].payload), ok)
       IN IF stored.kind = "throw"
          THEN Respond(c, ErrorReply(StoreError))
          ELSE IF IsFresh(stored, now)
          THEN Respond(c, ResultReply(stored.rec.bias, TRUE, stored.rec.timestamp))
          ELSE /\ pc' = [pc EXCEPT ![c] = "analyze"]
               /\ calls' = [calls EXCEPT ![c].analyze = @ + 1]
               /\ NoResponse
               /\ UNCHANGED <<msg, data, record>>
    /\ NoPurgeReturn
    /\ StoreAccess(c, "lookup", ok)
    /\ UNCHANGED <<lost, now, ticks, store, purge>>

\* analyzeArticle answering a failed analysis with an empty result.
AnalyzeFailsSwallowed(c) ==
    /\ pc[c] = "analyze"
    /\ Respond(c, ResultReply(0, FALSE, now))
    /\ NoPurgeReturn
    /\ NoStoreAccess
    /\ UNCHANGED <<lost, now, ticks, store, purge>>

\* biasAnalyzer.analyze rejects: analyzeArticle rejects with it.
AnalyzeFails(c) ==
    /\ pc[c] = "analyze"
    /\ Respond(c, ErrorReply(AnalyzerError))
    /\ NoPurgeReturn
    /\ NoStoreAccess
    /\ UNCHANGED <<lost, now, ticks, store, purge>>

\* biasAnalyzer.analyze resolves: build result and record, start saveAnalysis
\* (getStorageData -> chrome.storage.local.get).  The analyzer is opaque: the
\* value handler c's analysis returns is named by c.
AnalyzeReturns(c) ==
    /\ pc[c] = "analyze"
    /\ record' = [record EXCEPT ![c] =
                    [url |-> UrlOf(msg[c].payload),
                     title |-> TitleOf(msg[c].payload),
                     bias |-> c, timestamp |-> now, cached |-> FALSE]]
    /\ pc' = [pc EXCEPT ![c] = "saveRead"]
    /\ NoResponse /\ NoPurgeReturn
    /\ NoStoreAccess
    /\ UNCHANGED <<lost, now, ticks, store, msg, data, purge, calls>>

\* saveAnalysis: getStorageData completes; data.articles[record.url] = record;
\* setStorageData is issued.  A failed read is rethrown.
SaveRead(c, ok) ==
    /\ pc[c] = "saveRead"
    /\ IF ok
       THEN /\ data' = [data EXCEPT ![c] = PutArticle(getStorageData(store), record[c])]
            /\ pc' = [pc EXCEPT ![c] = "saveWrite"]
            /\ NoResponse
            /\ UNCHANGED <<msg, record, calls>>
       ELSE Respond(c, ErrorReply(StoreError))
    /\ NoPurgeReturn
    /\ StoreAccess(c, "saveRead", ok)
    /\ UNCHANGED <<lost, now, ticks, store, purge>>

\* analyzeArticle returning without the clearOldAnalyses call.
SkipPurge(c) == UNCHANGED purge

\* storageService.clearOldAnalyses().catch(...), not awaited: the task runs up
\* to its first await, the envelope read.
SpawnPurge(c) == purge' = [purge EXCEPT ![c].pc = "read"]

\* saveAnalysis: setStorageData completes.  analyzeArticle then calls
\* clearOldAnalyses without awaiting it (it runs up to its own first await) and
\* returns the result; a failed write is rethrown and rejects analyzeArticle.
SaveWrite(c, ok) ==
    /\ pc[c] = "saveWrite"
    /\ IF ok
       THEN /\ store' = Envelope(data[c])
            /\ SpawnPurge(c)
            /\ pc' = [pc EXCEPT ![c] = "done"]
            /\ reply' = [to |-> c, msg |-> msg[c],
                         value |-> ResultReply(record[c].bias, FALSE,
                                               record[c].timestamp),
                         calls |-> [calls[c] EXCEPT !.purge = @ + 1]]
            /\ msg' = [msg EXCEPT ![c] = NoMsg]
            /\ data' = [data EXCEPT ![c] = EmptyArticles]
            /\ record' = [record EXCEPT ![c] = NoRecord]
            /\ calls' = [calls EXCEPT ![c] = NoCalls]
            /\ lost' = NextLost(store, Envelope(data[c]), {record[c].url}, {record[c].url})
       ELSE /\ Respond(c, ErrorReply(StoreError))
            /\ UNCHANGED <<store, purge, lost>>
    /\ NoPurgeReturn
    /\ StoreAccess(c, "saveWrite", ok)
    /\ UNCHANGED <<now, ticks>>

\* clearOldAnalyses persisting whether or not it removed a record.
NeedsWriteAlways(removedCount) == TRUE

\* if (removedCount > 0)
NeedsWrite(removedCount) == removedCount > 0

\* clearOldAnalyses without its try/catch: the rejection, shown as -1, leaves
\* the method.
PurgeUncaught(c, sets) == PurgeReturns(c, -1, sets)

\* clearOldAnalyses' catch: the failure is logged and 0 returned.
PurgeCaught(c, sets) == PurgeReturns(c, 0, sets)

\* clearOldAnalyses: getStorageData completes; old records are deleted from the
\* local data; setStorageData is issued only if one was removed.  Any failure is
\* caught and yields 0.
PurgeRead(c, ok) ==
    /\ purge[c].pc = "read"
    /\ IF ok
       THEN LET articles == getStorageData(store)
                old == OldUrls(articles, now)
            IN IF NeedsWrite(Cardinality(old))
               THEN /\ purge' = [purge EXCEPT ![c] =
                          [pc |-> "write",
                           data |-> DeleteArticles(articles, old),
                           removedCount |-> Cardinality(old)]]
                    /\ NoPurgeReturn
               ELSE PurgeReturns(c, 0, 0)
       ELSE PurgeCaught(c, 0)
    /\ NoResponse
    /\ StoreAccess(c, "purgeRead", ok)
    /\ UNCHANGED <<lost, now, ticks, store, msg, pc, data, record, calls>>

\* clearOldAnalyses: setStorageData completes; return removedCount (0 when the
\* write failed).
PurgeWrite(c, ok) ==
    /\ purge[c].pc = "write"
    /\ IF ok
       THEN /\ store' = Envelope(purge[c].data)
            /\ PurgeReturns(c, purge[c].removedCount, 1)
            /\ lost' = NextLost(store, Envelope(purge[c].data),
                                OldUrls(getStorageData(store), now), {})
       ELSE /\ PurgeCaught(c, 1)
            /\ UNCHANGED <<store, lost>>
    /\ NoResponse
    /\ StoreAccess(c, "purgeWrite", ok)
    /\ UNCHANGED <<now, ticks, msg, pc, data, record, calls>>

\* getCachedAnalysis with the freshness test of analyzeArticle: a record past
\* the TTL is answered as null.
CachedReadFreshOnly(c, ok) ==
    /\ pc[c] = "cachedRead"
    /\ LET stored == getAnalysis(store, msg[c].payload.url, ok)
       IN Respond(c, IF IsFresh(stored, now)
                     THEN ResultReply(stored.rec.bias, TRUE, stored.rec.timestamp)
                     ELSE NullRecord)
    /\ NoPurgeReturn
    /\ StoreAccess(c, "cachedRead", ok)
    /\ UNCHANGED <<lost, now, ticks, store, purge>>

\* getCachedAnalysis: getAnalysis completes; the record is returned whatever
\* its age, null when there is none or the store failed.
CachedRead(c, ok) ==
    /\ pc[c] = "cachedRead"
    /\ LET stored == getAnalysis(store, msg[c].payload.url, ok)
       IN Respond(c, CASE stored.kind = "record" ->
                            ResultReply(stored.rec.bias, TRUE, stored.rec.timestamp)
                       [] stored.kind = "null" -> NullRecord
                       [] stored.kind = "throw" -> ErrorReply(StoreError))
    /\ NoPurgeReturn
    /\ StoreAccess(c, "cachedRead", ok)
    /\ UNCHANGED <<lost, now, ticks, store, purge>>

\* getArticleHistory -> getAllAnalyses: the sorted records, [] on a failure.
HistoryRead(c, ok) ==
    /\ pc[c] = "historyRead"
    /\ IF ok
       THEN \E list \in SortedAnalyses(getStorageData(store)) :
                Respond(c, ListReply(list))
       ELSE Respond(c, ListReply(<<>>))
    /\ NoPurgeReturn
    /\ StoreAccess(c, "historyRead", ok)
    /\ UNCHANGED <<lost, now, ticks, store, purge>>

\* deleteArticle -> deleteAnalysis: getStorageData completes; delete
\* data.articles[url]; setStorageData is issued.  A failed read is rethrown.
DeleteRead(c, ok) ==
    /\ pc[c] = "deleteRead"
    /\ IF ok
       THEN /\ data' = [data EXCEPT ![c] =
                          DeleteArticles(getStorageData(store), {msg[c].payload.url})]
            /\ pc' = [pc EXCEPT ![c] = "deleteWrite"]
            /\ NoResponse
            /\ UNCHANGED <<msg, record, calls>>
       ELSE Respond(c, ErrorReply(StoreError))
    /\ NoPurgeReturn
    /\ StoreAccess(c, "deleteRead", ok)
    /\ UNCHANGED <<lost, now, ticks, store, purge>>

\* handleMessage answering {success: true} whether or not the write of
\* deleteAnalysis succeeded.
DeleteWriteUnchecked(c, ok) ==
    /\ pc[c] = "deleteWrite"
    /\ Respond(c, SuccessReply)
    /\ IF ok
       THEN /\ store' = Envelope(data[c])
            /\ lost' = NextLost(store, Envelope(data[c]),
                                {msg[c].payload.url}, {msg[c].payload.url})
       ELSE UNCHANGED <<store, lost>>
    /\ NoPurgeReturn
    /\ StoreAccess(c, "deleteWrite", ok)
    /\ UNCHANGED <<now, ticks, purge>>

\* deleteAnalysis: setStorageData completes; handleMessage returns
\* {success: true}.  A failed write is rethrown.
DeleteWrite(c, ok) ==
    /\ pc[c] = "deleteWrite"
    /\ IF ok
       THEN /\ store' = Envelope(data[c])
            /\ Respond(c, SuccessReply)
            /\ lost' = NextLost(store, Envelope(data[c]),
                                {msg[c].payload.url}, {msg[c].payload.url})
       ELSE /\ Respond(c, ErrorReply(StoreError))
            /\ UNCHANGED <<store, lost>>
    /\ NoPurgeReturn
    /\ StoreAccess(c, "deleteWrite", ok)
    /\ UNCHANGED <<now, ticks, purge>>

\* clearHistory -> clearAllAnalyses: setStorageData of an empty envelope
\* completes.  A failed write is rethrown.
ClearWrite(c, ok) ==
    /\ pc[c] = "clearWrite"
    /\ IF ok
       THEN /\ store' = Envelope(EmptyArticles)
            /\ Respond(c, SuccessReply)
            /\ lost' = NextLost(store, Envelope(EmptyArticles), Keys, Keys)
       ELSE /\ Respond(c, ErrorReply(StoreError))
            /\ UNCHANGED <<store, lost>>
    /\ NoPurgeReturn
    /\ StoreAccess(c, "clearWrite", ok)
    /\ UNCHANGED <<now, ticks, purge>>

\* The service worker starts with nothing stored, or with an envelope of an
\* older version.
InitCache ==
    /\ now = 0
    /\ ticks = 0
    /\ store \in {NoEnvelope, OlderEnvelope}
    /\ msg = [c \in Calls |-> NoMsg]
    /\ pc = [c \in Calls |-> "idle"]
    /\ data = [c \in Calls |-> EmptyArticles]
    /\ record = [c \in Calls |-> NoRecord]
    /\ reply = NoSent
    /\ purge = [c \in Calls |-> NoPurge]
    /\ purged = NoPurged
    /\ fault = NoFault
    /\ lost = EmptyArticles
    /\ calls = [c \in Calls |-> NoCalls]
    /\ opResponse = NoPayloadYet
    /\ located = NotLocated
    /\ vpc = "idle"
    /\ attempt = 0
    /\ log = <<>>
    /\ startData = NoPoll
    /\ pollData = NoPoll
    /\ timer = 0
    /\ runs = 0
    /\ earlier = Pending
    /\ quiet = TRUE
    /\ outcome = Pending

NextCache ==
    \/ \E d \in TickSteps : Tick(d) /\ UNCHANGED otherVars
    \/ \E c \in Calls : \E m \in Messages(c) : Receive(c, m) /\ UNCHANGED otherVars
    \/ \E c \in Calls : \E m \in Messages(c) : ReceiveUnknown(c, m) /\ UNCHANGED otherVars
    \/ \E c \in Calls, ok \in BOOLEAN : AnalyzeLookup(c, ok) /\ UNCHANGED otherVars
    \/ \E c \in Calls : AnalyzeFails(c) /\ UNCHANGED otherVars
    \/ \E c \in Calls : AnalyzeReturns(c) /\ UNCHANGED otherVars
    \/ \E c \in Calls, ok \in BOOLEAN : SaveRead(c, ok) /\ UNCHANGED otherVars
    \/ \E c \in Calls, ok \in BOOLEAN : SaveWrite(c, ok) /\ UNCHANGED otherVars
    \/ \E c \in Calls, ok \in BOOLEAN : PurgeRead(c, ok) /\ UNCHANGED otherVars
    \/ \E c \in Calls, ok \in BOOLEAN : PurgeWrite(c, ok) /\ UNCHANGED otherVars
    \/ \E c \in Calls, ok \in BOOLEAN : CachedRead(c, ok) /\ UNCHANGED otherVars
    \/ \E c \in Calls, ok \in BOOLEAN : HistoryRead(c, ok) /\ UNCHANGED otherVars
    \/ \E c \in Calls, ok \in BOOLEAN : DeleteRead(c, ok) /\ UNCHANGED otherVars
    \/ \E c \in Calls, ok \in BOOLEAN : DeleteWrite(c, ok) /\ UNCHANGED otherVars
    \/ \E c \in Calls, ok \in BOOLEAN : ClearWrite(c, ok) /\ UNCHANGED otherVars

SpecCache == InitCache /\ [][NextCache]_vars

\* ------------------------------------------------------------ cache claims
\* No handler and no clearOldAnalyses task is between two awaits.
AllCyclesDone ==
    \A c \in Calls :
        /\ pc[c] \in {"idle", "done"}
        /\ purge[c].pc \in {"none", "done"}

\* C1, as stated: whenever the store holds a record for the request's key
\* with now - timestamp < 24h, the lookup of analyzeArticle answers with that
\* record's result and cached = true, without a call of the analyzer --
\* whether or not the store read of the lookup succeeds.
C1_FreshAlwaysServed ==
    [][\A c \in Calls :
        LET k == UrlOf(msg[c].payload) IN
        (/\ pc[c] = "lookup" /\ pc'[c] # "lookup"
         /\ store.present /\ store.version = STORAGE_VERSION
         /\ k \in DOMAIN store.articles
         /\ now - store.articles[k].timestamp < CACHE_TTL_MS)
        => /\ reply'.to = c
           /\ reply'.value = ResultReply(store.articles[k].bias, TRUE,
                                         store.articles[k].timestamp)
           /\ reply'.calls.analyze = 0]_vars

\* C1, amended: whenever the store read of the lookup succeeds and the store
\* holds a record for the request's key with now - timestamp < 24h, the
\* lookup of analyzeArticle answers with that record's result (its bias and
\* its timestamp) and cached = true, and the handler has made no call of the
\* analyzer and does not go on to one.
C1_FreshServed ==
    [][\A c \in Calls :
        LET k == UrlOf(msg[c].payload) IN
        (/\ pc[c] = "lookup" /\ pc'[c] # "lookup"
         /\ fault' = NoFault
         /\ store.present /\ store.version = STORAGE_VERSION
         /\ k \in DOMAIN store.articles
         /\ now - store.articles[k].timestamp < CACHE_TTL_MS)
        => /\ reply'.to = c
           /\ reply'.value = ResultReply(store.articles[k].bias, TRUE,
                                         store.articles[k].timestamp)
           /\ reply'.calls.analyze = 0
           /\ pc'[c] = "done"]_vars

\* C1 witness: the second of two analyze calls for one key is answered from
\* the cache with the result the first call computed, without an analyzer
\* call of its own.
C1_Witness ==
    /\ reply.to = 2
    /\ reply.msg.type = "ANALYZE_ARTICLE"
    /\ reply.value = ResultReply(1, TRUE, 0)
    /\ reply.calls.analyze = 0
    /\ now < CACHE_TTL_MS

\* C2, as stated: once all read-modify-write cycles have completed, no record
\* that a completed saveAnalysis wrote is missing from the envelope because
\* the write of another cycle removed it, unless it is older than the purge
\* horizon (records deleted, cleared or replaced by a later save of their key
\* are not counted as lost).
C2_NoUpdateLost ==
    AllCyclesDone =>
        \A k \in DOMAIN lost : lost[k].timestamp < now - MAX_AGE_MS

C4_StoreErrorsAbsorbed ==
    fault.at \in {"lookup", "saveRead", "saveWrite"} =>
        ~(reply.to = fault.by /\ reply.value.kind = "error")

\* C5: when the store read of the cache lookup fails, getAnalysis returns
\* null: analyzeArticle sends no response at that step and goes on to its one
\* call of the analyzer, as on a miss.
C5_LookupFailureIsMiss ==
    fault.at = "lookup" =>
        /\ pc[fault.by] = "analyze"
        /\ calls[fault.by].analyze = 1
        /\ reply = NoSent

\* C5 witness: the lookup read fails while the store holds a record for the
\* key, and the handler is at the analyzer call.
C5_Witness ==
    /\ fault.at = "lookup"
    /\ UrlOf(msg[fault.by].payload) \in DOMAIN getStorageData(store)
    /\ pc[fault.by] = "analyze"

\* C13: a lookup that finds no record for the key in the store, or one with
\* now - timestamp >= 24h, is followed by the handler's one call of the
\* analyzer and no response; the record built from the analyzer's result has
\* the time of that step as its timestamp; and when its save completes, the
\* envelope holds exactly that record under the key and the response is its
\* result with cached = false and the same timestamp.
C13_StaleRecomputed ==
    [][\A c \in Calls :
        LET k == UrlOf(msg[c].payload)
            articles == getStorageData(store)
        IN /\ (/\ pc[c] = "lookup" /\ pc'[c] # "lookup"
               /\ (k \in DOMAIN articles =>
                      now - articles[k].timestamp >= CACHE_TTL_MS))
              => /\ pc'[c] = "analyze"
                 /\ calls'[c].analyze = 1
                 /\ reply' = NoSent
           /\ (pc[c] = "analyze" /\ pc'[c] = "saveRead")
              => /\ record'[c].url = k
                 /\ record'[c].timestamp = now
           /\ (pc[c] = "saveWrite" /\ pc'[c] = "done" /\ fault' = NoFault)
              => /\ store'.present /\ store'.version = STORAGE_VERSION
                 /\ k \in DOMAIN store'.articles
                 /\ store'.articles[k] = record[c]
                 /\ reply'.to = c
                 /\ reply'.value = ResultReply(record[c].bias, FALSE,
                                               record[c].timestamp)
                 /\ reply'.calls.analyze = 1]_vars

\* C13 witness: the store holds the first call's record, saved at time 0; the
\* second call for the same key, a TTL later, has had its own analysis and is
\* about to overwrite that record with one stamped with the later time.
C13_Witness ==
    \E k \in DOMAIN getStorageData(store) :
        /\ getStorageData(store)[k].timestamp = 0
        /\ getStorageData(store)[k].bias = 1
        /\ pc[2] = "saveWrite"
        /\ record[2].url = k
        /\ record[2].bias = 2
        /\ record[2].timestamp = CACHE_TTL_MS
        /\ k \in DOMAIN data[2] /\ data[2][k] = record[2]

C15_PurgeWritesOnce ==
    [][\A c \in Calls :
        LET articles == getStorageData(store)
            old == {k \in DOMAIN articles :
                       articles[k].timestamp < now - MAX_AGE_MS}
        IN /\ (purge[c].pc = "read" /\ purge'[c].pc # "read")
              => /\ store' = store
                 /\ IF fault' = NoFault /\ old # {}
                    THEN /\ purge'[c].pc = "write"
                         /\ purge'[c].removedCount = Cardinality(old)
                         /\ purged' = NoPurged
                    ELSE /\ purge'[c].pc = "done"
                         /\ purged' = [by |-> c, ret |-> 0, sets |-> 0]
           /\ (purge[c].pc = "write" /\ purge'[c].pc # "write")
              => /\ purge'[c].pc = "done"
                 /\ purge[c].removedCount > 0
                 /\ IF fault' = NoFault
                    THEN /\ purged' = [by |-> c, ret |-> purge[c].removedCount,
                                       sets |-> 1]
                         /\ store' = Envelope(purge[c].data)
                    ELSE /\ purged' = [by |-> c, ret |-> 0, sets |-> 1]
                         /\ store' = store]_vars

\* C15 witness: a clearOldAnalyses has returned 1 after one store write, and
\* the envelope it wrote is without the record it removed.
C15_Witness ==
    /\ purged.by # 0
    /\ purged.ret = 1
    /\ purged.sets = 1
    /\ store.present
    /\ getStorageData(store) = EmptyArticles

\* C16: while nothing is stored or the stored envelope has another version,
\* a successful read sees no record: the lookup of analyzeArticle goes on to
\* the analyzer, getCachedAnalysis answers null and getArticleHistory an empty
\* list; and the write that replaces such an envelope stores the current
\* version with no entry but the record that write saves, never an entry of
\* the replaced envelope.
C16_VersionReset ==
    [][(~store.present \/ store.version # STORAGE_VERSION) =>
        /\ \A c \in Calls :
              /\ (pc[c] = "lookup" /\ pc'[c] # "lookup")
                 => pc'[c] = "analyze" /\ reply' = NoSent
              /\ (pc[c] = "cachedRead" /\ pc'[c] # "cachedRead")
                 => reply'.to = c /\ reply'.value = NullRecord
              /\ (pc[c] = "historyRead" /\ pc'[c] # "historyRead")
                 => reply'.to = c /\ reply'.value = ListReply(<<>>)
        /\ store' # store =>
              /\ store'.present /\ store'.version = STORAGE_VERSION
              /\ \A k \in DOMAIN store'.articles :
                    /\ \E c \in Calls :
                          /\ pc[c] = "saveWrite" /\ pc'[c] = "done"
                          /\ record[c].url = k
                          /\ store'.articles[k] = record[c]
                    /\ k \in DOMAIN store.articles
                       => store'.articles[k] # store.articles[k]]_vars

\* C16 witness: the stored envelope has another version and holds a record
\* for the url; getCachedAnalysis for that url has read the store and
\* answered null.
C16_Witness ==
    /\ store.present /\ store.version # STORAGE_VERSION
    /\ reply.msg.type = "GET_CACHED_ANALYSIS"
    /\ reply.msg.payload.url \in DOMAIN store.articles
    /\ reply.value = NullRecord
    /\ fault = NoFault

\* C19: when the analyzer fails, the handler answers with that failure, has
\* called the analyzer once, and has written nothing: neither its lookup nor
\* the failing step changes the envelope, and no purge is started.
C19_AnalyzerFailureSurfaced ==
    [][\A c \in Calls :
        /\ (pc[c] = "lookup" /\ pc'[c] # "lookup") => store' = store
        /\ (pc[c] = "analyze" /\ pc'[c] = "done")
           => /\ reply'.to = c
              /\ reply'.value = ErrorReply(AnalyzerError)
              /\ reply'.calls.analyze = 1
              /\ reply'.calls.purge = 0
              /\ store' = store
              /\ purge' = purge]_vars

\* C19 witness: the analysis for a url has failed and been answered with the
\* analyzer's error while the stale record of that url is still stored.
C19_Witness ==
    /\ reply.value = ErrorReply(AnalyzerError)
    /\ reply.calls.analyze = 1
    /\ LET articles == getStorageData(store) IN
       /\ UrlOf(reply.msg.payload) \in DOMAIN articles
       /\ now - articles[UrlOf(reply.msg.payload)].timestamp >= CACHE_TTL_MS

\* C20: analyzeArticle answers with its result in the step that starts the
\* purge, before the purge has done anything; no later step of the purge
\* sends a response, and a purge whose store call fails returns 0.
C20_PurgeNeverReachesCaller ==
    [][\A c \in Calls :
        /\ (pc[c] = "saveWrite" /\ pc'[c] = "done" /\ fault' = NoFault)
           => /\ reply'.to = c /\ reply'.value.kind = "result"
              /\ purge'[c].pc = "read"
              /\ purged' = NoPurged
        /\ (purge[c].pc \in {"read", "write"} /\ purge'[c] # purge[c])
           => /\ pc[c] = "done"
              /\ reply' = NoSent
              /\ fault' # NoFault
                 => purge'[c].pc = "done" /\ purged'.by = c /\ purged'.ret = 0]_vars

\* C20 witness: the purge of a handler that has answered has just returned 0
\* after a store call of it failed.
C20_Witness ==
    /\ fault.by # 0 /\ fault.at \in {"purgeRead", "purgeWrite"}
    /\ purged.by = fault.by /\ purged.ret = 0
    /\ pc[fault.by] = "done"

\* C21: a handler sends its response in the step in which it ends, and none
\* before or after it; when the handler fails (an unknown type, a failed
\* analysis, a rejected store call of saveAnalysis, deleteAnalysis or
\* clearAllAnalyses) the response is {error: string}; {success: true} is sent
\* only for DELETE_ARTICLE and CLEAR_HISTORY, in the step in which the write
\* succeeds and installs the envelope without the url, or the empty envelope.
C21_OneStructuredResponse ==
    [][\A c \in Calls :
        /\ pc[c] = "done" => pc'[c] = "done" /\ reply'.to # c
        /\ (pc[c] # "done" /\ pc'[c] = "done")
           => reply'.to = c /\ reply'.value # NoReply
        /\ (pc[c] # "done" /\ pc'[c] # "done") => reply'.to # c
        /\ (/\ pc[c] # "done" /\ pc'[c] = "done"
            /\ \/ pc[c] \in {"idle", "analyze"}
               \/ /\ fault'.by = c
                  /\ pc[c] \in {"saveRead", "saveWrite", "deleteRead",
                                "deleteWrite", "clearWrite"})
           => /\ reply'.value.kind = "error"
              /\ reply'.value.error \in {StoreError, AnalyzerError, UnknownTypeError}
        /\ (pc[c] = "idle" /\ pc'[c] = "done")
           => reply'.value = ErrorReply(UnknownTypeError)
        /\ (reply'.to = c /\ reply'.value = SuccessReply)
           => /\ fault' = NoFault
              /\ \/ /\ pc[c] = "deleteWrite"
                    /\ reply'.msg.type = "DELETE_ARTICLE"
                    /\ store' = Envelope(data[c])
                    /\ reply'.msg.payload.url \notin DOMAIN store'.articles
                 \/ /\ pc[c] = "clearWrite"
                    /\ reply'.msg.type = "CLEAR_HISTORY"
                    /\ store' = Envelope(EmptyArticles)]_vars

\* C21 witness: DELETE_ARTICLE has been answered with the store error after
\* its write was rejected, the record still being stored.
C21_Witness ==
    /\ reply.to # 0
    /\ reply.msg.type = "DELETE_ARTICLE"
    /\ reply.value = ErrorReply(StoreError)
    /\ fault = [by |-> reply.to, at |-> "deleteWrite"]
    /\ reply.msg.payload.url \in DOMAIN getStorageData(store)

\* C23: in the step in which the write of deleteAnalysis(k) succeeds the
\* envelope comes to hold nothing under k and, under every other key, what
\* it held before; in the step in which the write of clearAllAnalyses
\* succeeds it becomes the empty envelope of the current version.
C23_DeleteAndClearFrame ==
    [][\A c \in Calls :
        /\ (pc[c] = "deleteWrite" /\ pc'[c] = "done" /\ fault' = NoFault)
           => LET k == msg[c].payload.url
                  before == getStorageData(store)
                  after == getStorageData(store')
              IN /\ getAnalysis(store', k, TRUE) = NullRecord
                 /\ \A j \in Keys \ {k} : Lookup(after, j) = Lookup(before, j)
        /\ (pc[c] = "clearWrite" /\ pc'[c] = "done" /\ fault' = NoFault)
           => /\ store'.present /\ store'.version = STORAGE_VERSION
              /\ DOMAIN store'.articles = {}]_vars

\* ------------------------------------------------- the cache, store seeded
\* The handlers that are started over the seeded store.
SeededCalls == 1..MaxSeededCalls

\* The clock when the service worker starts over the seeded store, and the
\* times at which the stored records were written: one is past the TTL at the
\* start, the other within it.
SeedNow == CACHE_TTL_MS + 1
SeedTimes == {0, CACHE_TTL_MS}

\* The record analyzeArticle stored for key k at time t in an earlier run of
\* the service worker.
SeedRecord(k, t) ==
    [url |-> k, title |-> IF k = "unknown" THEN "Untitled Article" ELSE "Title",
     bias |-> 0, timestamp |-> t, cached |-> FALSE]

\* The envelopes an earlier run can have left: any keys, any of the times.
SeedEnvelopes ==
    {Envelope([k \in ks |-> SeedRecord(k, ts[k])]) :
        ks \in SUBSET Keys, ts \in [Keys -> SeedTimes]}

\* The service worker is started again over what it stored before.
InitSeeded ==
    /\ now = SeedNow
    /\ ticks = 0
    /\ store \in SeedEnvelopes
    /\ msg = [c \in Calls |-> NoMsg]
    /\ pc = [c \in Calls |-> "idle"]
    /\ data = [c \in Calls |-> EmptyArticles]
    /\ record = [c \in Calls |-> NoRecord]
    /\ reply = NoSent
    /\ purge = [c \in Calls |-> NoPurge]
    /\ purged = NoPurged
    /\ fault = NoFault
    /\ lost = EmptyArticles
    /\ calls = [c \in Calls |-> NoCalls]
    /\ opResponse = NoPayloadYet
    /\ located = NotLocated
    /\ vpc = "idle"
    /\ attempt = 0
    /\ log = <<>>
    /\ startData = NoPoll
    /\ pollData = NoPoll
    /\ timer = 0
    /\ runs = 0
    /\ earlier = Pending
    /\ quiet = TRUE
    /\ outcome = Pending

NextSeeded ==
    \/ \E d \in TickSteps : Tick(d) /\ UNCHANGED otherVars
    \/ \E c \in SeededCalls : \E m \in Messages(c) : Receive(c, m) /\ UNCHANGED otherVars
    \/ \E c \in SeededCalls : \E m \in Messages(c) : ReceiveUnknown(c, m) /\ UNCHANGED otherVars
    \/ \E c \in SeededCalls, ok \in BOOLEAN : AnalyzeLookup(c, ok) /\ UNCHANGED otherVars
    \/ \E c \in SeededCalls : AnalyzeFails(c) /\ UNCHANGED otherVars
    \/ \E c \in SeededCalls : AnalyzeReturns(c) /\ UNCHANGED otherVars
    \/ \E c \in SeededCalls, ok \in BOOLEAN : SaveRead(c, ok) /\ UNCHANGED otherVars
    \/ \E c \in SeededCalls, ok \in BOOLEAN : SaveWrite(c, ok) /\ UNCHANGED otherVars
    \/ \E c \in SeededCalls, ok \in BOOLEAN : PurgeRead(c, ok) /\ UNCHANGED otherVars
    \/ \E c \in SeededCalls, ok \in BOOLEAN : PurgeWrite(c, ok) /\ UNCHANGED otherVars
    \/ \E c \in SeededCalls, ok \in BOOLEAN : CachedRead(c, ok) /\ UNCHANGED otherVars
    \/ \E c \in SeededCalls, ok \in BOOLEAN : HistoryRead(c, ok) /\ UNCHANGED otherVars
    \/ \E c \in SeededCalls, ok \in BOOLEAN : DeleteRead(c, ok) /\ UNCHANGED otherVars
    \/ \E c \in SeededCalls, ok \in BOOLEAN : DeleteWrite(c, ok) /\ UNCHANGED otherVars
    \/ \E c \in SeededCalls, ok \in BOOLEAN : ClearWrite(c, ok) /\ UNCHANGED otherVars

SpecSeeded == InitSeeded /\ [][NextSeeded]_vars

\* ------------------------------------------------------ seeded cache claims
\* C22: when the write of saveAnalysis succeeds and the envelope is still the
\* one saveAnalysis read, the envelope then holds under the record's url
\* exactly the record saved, whatever was stored there before, and under
\* every other key what it held before.
C22_PutReplaces ==
    [][\A c \in Calls :
        (/\ pc[c] = "saveWrite" /\ pc'[c] = "done" /\ fault' = NoFault
         /\ \A k \in Keys \ {record[c].url} :
               Lookup(data[c], k) = Lookup(getStorageData(store), k))
        => LET before == getStorageData(store)
               after == getStorageData(store')
           IN /\ getAnalysis(store', record[c].url, TRUE)
                    = [kind |-> "record", rec |-> record[c]]
              /\ DOMAIN after = DOMAIN before \cup {record[c].url}
              /\ \A k \in DOMAIN after \ {record[c].url} : after[k] = before[k]]_vars

\* C22 witness: a record has been saved over an earlier record of its url,
\* and the record of the other key is still stored.
C22_Witness ==
    /\ reply.to # 0 /\ reply.value.kind = "result" /\ ~reply.value.cached
    /\ reply.msg.payload.url \in Urls
    /\ LET articles == getStorageData(store) IN
       /\ DOMAIN articles = Keys
       /\ articles[reply.msg.payload.url].bias = reply.to
       /\ articles["unknown"] = SeedRecord("unknown", CACHE_TTL_MS)

\* C25: the response to GET_ARTICLE_HISTORY is a list; when the store read
\* succeeded it holds every record of the envelope once and nothing else,
\* no record before one with a greater timestamp; when the read failed it is
\* the empty list.
C25_HistoryNewestFirst ==
    (reply.to # 0 /\ reply.msg.type = "GET_ARTICLE_HISTORY")
    => /\ reply.value.kind = "list"
       /\ LET list == reply.value.list
              articles == getStorageData(store)
          IN IF fault = NoFault
             THEN /\ Len(list) = Cardinality(DOMAIN articles)
                  /\ \A k \in DOMAIN articles :
                        Cardinality({i \in 1..Len(list) : list[i] = articles[k]}) = 1
                  /\ \A i, j \in 1..Len(list) :
                        i < j => list[i].timestamp >= list[j].timestamp
             ELSE list = <<>>

\* C25 witness: the history of an envelope with two records of different
\* times has been answered, the newer record first.
C25_Witness ==
    /\ reply.msg.type = "GET_ARTICLE_HISTORY"
    /\ fault = NoFault
    /\ reply.value.kind = "list"
    /\ Len(reply.value.list) = 2
    /\ reply.value.list[1].timestamp > reply.value.list[2].timestamp

\* C26: GET_CACHED_ANALYSIS whose store read succeeded is answered with the
\* record stored under the url, marked cached, whatever its age; a result
\* that ANALYZE_ARTICLE answers as cached is younger than the TTL.
C26_StaleStillReadable ==
    /\ (/\ reply.to # 0 /\ reply.msg.type = "GET_CACHED_ANALYSIS"
        /\ fault = NoFault
        /\ reply.msg.payload.url \in DOMAIN getStorageData(store))
       => LET rec == getStorageData(store)[reply.msg.payload.url]
          IN reply.value = ResultReply(rec.bias, TRUE, rec.timestamp)
    /\ (/\ reply.to # 0 /\ reply.msg.type = "ANALYZE_ARTICLE"
        /\ reply.value.kind = "result" /\ reply.value.cached)
       => now - reply.value.timestamp < CACHE_TTL_MS

\* C26 witness: GET_CACHED_ANALYSIS has been answered with a record that is
\* past the TTL and within the purge horizon.
C26_Witness ==
    /\ reply.msg.type = "GET_CACHED_ANALYSIS"
    /\ reply.value.kind = "result" /\ reply.value.cached
    /\ now - reply.value.timestamp > CACHE_TTL_MS
    /\ now - reply.value.timestamp <= MAX_AGE_MS

\* The step completes the lookup of an analyze request without a url while
\* the envelope holds, under 'unknown', a record younger than the TTL.
UrllessLookupOfFresh(c) ==
    /\ pc[c] = "lookup" /\ pc'[c] # "lookup"
    /\ msg[c].payload.url = Absent
    /\ "unknown" \in DOMAIN getStorageData(store)
    /\ now - getStorageData(store)["unknown"].timestamp < CACHE_TTL_MS

\* The step answers handler c with the record stored under 'unknown', marked
\* cached, without a call of the analyzer and without a write.
ServedUnknown(c) ==
    LET rec == getStorageData(store)["unknown"] IN
    /\ reply'.to = c
    /\ reply'.value = ResultReply(rec.bias, TRUE, rec.timestamp)
    /\ reply'.calls.analyze = 0
    /\ pc'[c] = "done"
    /\ store' = store

\* The record an analyze request without a url builds has the url 'unknown'.
UrllessKeyedUnknown(c) ==
    (pc[c] = "analyze" /\ pc'[c] = "saveRead" /\ msg[c].payload.url = Absent)
    => record'[c].url = "unknown"

\* C30 as stated: every analyze request without a url whose lookup finds a
\* record younger than the TTL stored under 'unknown' is answered with that
\* record -- whether or not the store read of the lookup succeeds.
C30_UrllessAlwaysServed ==
    [][\A c \in Calls :
        /\ UrllessLookupOfFresh(c) => ServedUnknown(c)
        /\ UrllessKeyedUnknown(c)]_vars

\* C30: an analyze request without a url stores its record under 'unknown',
\* and every analyze request without a url whose lookup read succeeds while
\* a record younger than the TTL is stored under 'unknown' is answered with
\* that record, cached = true, without a call of the analyzer, whatever its
\* text is.
C30_UrllessShareUnknown ==
    [][\A c \in Calls :
        /\ (UrllessLookupOfFresh(c) /\ fault' = NoFault) => ServedUnknown(c)
        /\ UrllessKeyedUnknown(c)]_vars

\* C30 witness: an analyze request without a url has been answered, without
\* an analyzer call, with the result stored by another request without a url.
C30_Witness ==
    /\ reply.to # 0
    /\ reply.msg.type = "ANALYZE_ARTICLE"
    /\ reply.msg.payload.url = Absent
    /\ reply.value.kind = "result" /\ reply.value.cached
    /\ reply.value.bias # reply.to
    /\ reply.calls.analyze = 0
    /\ reply.value.bias = getStorageData(store)["unknown"].bias

\* One generateArticleVideo call, with the store at rest.
InitVideo ==
    /\ now = 0
    /\ ticks = 0
    /\ store = NoEnvelope
    /\ msg = [c \in Calls |-> NoMsg]
    /\ pc = [c \in Calls |-> "idle"]
    /\ data = [c \in Calls |-> EmptyArticles]
    /\ record = [c \in Calls |-> NoRecord]
    /\ reply = NoSent
    /\ purge = [c \in Calls |-> NoPurge]
    /\ purged = NoPurged
    /\ fault = NoFault
    /\ lost = EmptyArticles
    /\ calls = [c \in Calls |-> NoCalls]
    /\ opResponse = NoPayloadYet
    /\ located = NotLocated
    /\ vpc = "idle"
    /\ attempt = 0
    /\ log = <<>>
    /\ startData = NoPoll
    /\ pollData = NoPoll
    /\ timer = 0
    /\ runs = 0
    /\ earlier = Pending
    /\ quiet = TRUE
    /\ outcome = Pending

NextVideo ==
    \/ GenerateArticleVideo /\ UNCHANGED cacheVars
    \/ \E hasKey \in BOOLEAN : GetApiKeyReturns(hasKey) /\ UNCHANGED cacheVars
    \/ PromptReturns /\ UNCHANGED cacheVars
    \/ PromptFails /\ UNCHANGED cacheVars
    \/ \E res \in StartResults : StartReturns(res) /\ UNCHANGED cacheVars
    \/ \E res \in PollResults : PollReturns(res) /\ UNCHANGED cacheVars
    \/ WaitElapses /\ UNCHANGED cacheVars
    \/ \E res \in DownloadResults : DownloadReturns(res) /\ UNCHANGED cacheVars

SpecVideo == InitVideo /\ [][NextVideo]_vars

\* Every call generateArticleVideo awaits settles and the poll timer fires:
\* a call that is suspended is resumed.  New calls need not arrive.
VideoResumes ==
    \/ \E hasKey \in BOOLEAN : GetApiKeyReturns(hasKey) /\ UNCHANGED cacheVars
    \/ PromptReturns /\ UNCHANGED cacheVars
    \/ PromptFails /\ UNCHANGED cacheVars
    \/ \E res \in StartResults : StartReturns(res) /\ UNCHANGED cacheVars
    \/ \E res \in PollResults : PollReturns(res) /\ UNCHANGED cacheVars
    \/ WaitElapses /\ UNCHANGED cacheVars
    \/ \E res \in DownloadResults : DownloadReturns(res) /\ UNCHANGED cacheVars

SpecVideoLive == InitVideo /\ [][NextVideo]_vars /\ WF_vars(VideoResumes)

\* ------------------------------------------------------------ video claims
\* How often a request of generateVideo has been logged.
Count(ev) == Cardinality({n \in 1..Len(log) : log[n] = ev})

TimedOut == Thrown("Veo generation timed out", Undefined)

\* C6: the loop counter and the number of polls issued never exceed
\* MAX_POLL_ATTEMPTS; a call whose polls all answered without done and without
\* an error ends only by the timed-out error, after exactly MAX_POLL_ATTEMPTS
\* polls, all completed; and a timed-out call has issued MAX_POLL_ATTEMPTS
\* polls and neither a resolve nor a download.
C6_PollBudget ==
    /\ attempt <= MAX_POLL_ATTEMPTS
    /\ Count("poll") <= MAX_POLL_ATTEMPTS
    /\ (quiet /\ vpc = "done" /\ Count("poll") > 0) => outcome = TimedOut
    /\ outcome = TimedOut =>
          /\ vpc = "done"
          /\ Count("poll") = MAX_POLL_ATTEMPTS
          /\ Count("poll.done") = MAX_POLL_ATTEMPTS
          /\ Count("resolve") = 0
          /\ Count("download") = 0

\* C6 witness: thirty polls that all found the operation running, and the
\* call has ended with the timed-out error.
C6_Witness ==
    /\ outcome = TimedOut
    /\ quiet
    /\ Count("poll") = MAX_POLL_ATTEMPTS

\* C7, as stated: after a poll response that carries a remote error the call
\* has failed with "Veo error" and the remote message, and nothing was issued
\* after that poll: no resolve and no download.
C7_RemoteErrorShortCircuits ==
    (/\ pollData.kind = "resolved" /\ pollData.ok
     /\ Get(pollData.body, "error") # Undefined)
    => /\ vpc = "done"
       /\ outcome = Thrown("Veo error", Get(Get(pollData.body, "error"), "message"))
       /\ log[Len(log)] = "poll.done"

\* C8: the requests of one generateVideo call are issued stage by stage:
\* start, the polls, resolve, download, none issued before the one before it
\* has completed, and no stage other than polling more than once.
C8_StageOrder ==
    LET stage == [e \in {"start", "start.done"} |-> 1]
                 @@ [e \in {"poll", "poll.done"} |-> 2]
                 @@ [e \in {"resolve"} |-> 3]
                 @@ [e \in {"download", "download.done"} |-> 4]
        completion == [e \in {"start", "poll", "download"} |->
                        CASE e = "start" -> "start.done"
                          [] e = "poll" -> "poll.done"
                          [] e = "download" -> "download.done"]
    IN /\ \A m, n \in 1..Len(log) : m < n => stage[log[m]] <= stage[log[n]]
       /\ \A n \in 1..(Len(log) - 1) :
             log[n] \in DOMAIN completion => log[n + 1] = completion[log[n]]
       /\ \A n \in 1..Len(log) :
             /\ log[n] = "start" => n = 1
             /\ log[n] = "poll" => n > 1 /\ log[n - 1] \in {"start.done", "poll.done"}
             /\ log[n] = "resolve" => n > 1 /\ log[n - 1] = "poll.done"
             /\ log[n] = "download" => n > 1 /\ log[n - 1] = "resolve"
       /\ Count("start") <= 1 /\ Count("resolve") <= 1 /\ Count("download") <= 1

\* C8 witness: a call that went through every stage, with more than one poll,
\* and returned the video.
C8_Witness ==
    /\ outcome.kind = "video"
    /\ Count("poll") > 1
    /\ log[Len(log)] = "download.done"

\* C11: when the operation is done and getVideoUri finds no locator in its
\* response (null, or an empty string), also when the done poll carried no
\* response at all, generateVideo has ended with the missing-URI error, which
\* is not the "Veo error" of a failed operation, and no download was issued;
\* and a call that returned a video had a locator and completed a download.
C11_UnresolvableIsError ==
    LET missing == Thrown("Veo response missing video URI", Undefined) IN
    /\ (located # NotLocated /\ ~Truthy(located)) =>
          /\ vpc = "done"
          /\ outcome = missing
          /\ Count("download") = 0
    /\ (/\ pollData.kind = "resolved" /\ pollData.ok
        /\ ~ReportsError(pollData.body)
        /\ Truthy(Get(pollData.body, "done"))
        /\ Get(pollData.body, "response") = Undefined) =>
          /\ opResponse = Obj(<<>>)
          /\ located = Null
          /\ outcome = missing
    /\ outcome.kind = "video" =>
          /\ Truthy(located)
          /\ Count("download.done") = 1

\* C11 witness: a done poll without a response, and the call has ended with
\* the missing-URI error.
C11_Witness ==
    /\ Truthy(Get(pollData.body, "done"))
    /\ Get(pollData.body, "response") = Undefined
    /\ located = Null
    /\ outcome = Thrown("Veo response missing video URI", Undefined)

\* C12: when the resolved locator starts with gs://, generateVideo has ended
\* with the Cloud Storage error carrying that locator; no download was issued
\* and the one start request was not repeated.
C12_GcsUriRejected ==
    (IsString(located) /\ StartsWith(located.chars, GsPrefix)) =>
        /\ vpc = "done"
        /\ outcome = Thrown("Veo returned a Cloud Storage URI", located)
        /\ Count("download") = 0
        /\ Count("start") = 1
        /\ Count("resolve") = 1

\* C12 witness: a gs:// locator was resolved and the call has ended.
C12_Witness ==
    /\ located = GsUri
    /\ outcome.what = "Veo returned a Cloud Storage URI"
    /\ log[Len(log)] = "resolve"

\* C17: once the start fetch has answered with a non-2xx status, or with a
\* body whose name is not a non-empty string, the call has failed with the
\* start error and has issued no poll, no resolve and no download.
C17_StartFailureStopsCall ==
    (/\ startData.kind = "resolved"
     /\ \/ ~startData.ok
        \/ Get(startData.body, "name").type # "string"
        \/ Get(startData.body, "name") = Str(<<>>))
    => /\ vpc = "done"
       /\ outcome.kind = "error"
       /\ outcome.what = (IF startData.ok THEN "Veo start: missing operation name"
                                          ELSE "Veo start failed")
       /\ Count("poll") = 0 /\ Count("resolve") = 0 /\ Count("download") = 0

\* C17 witness: the start fetch answered 2xx with an empty string as the
\* name and the call has ended with the missing-name error.
C17_Witness ==
    /\ startData = HttpOk(Obj(<<Entry("name", Str(<<>>))>>))
    /\ vpc = "done"
    /\ outcome = Thrown("Veo start: missing operation name", Undefined)

\* C18 as stated: every generateArticleVideo call that has ended has issued
\* exactly one start request and at most one download request.
C18_EveryCallStartsOnce ==
    vpc = "done" => Count("start") = 1 /\ Count("download") <= 1

\* C18: a generateArticleVideo call issues at most one start and at most one
\* download request; a call that has ended, unless it ended without an API
\* key or in the prompt generation, has issued exactly one start request,
\* and one that ended with a video exactly one download request: also when
\* the call before it ended with a video.
C18_SingleAttempt ==
    /\ Count("start") <= 1 /\ Count("download") <= 1
    /\ (vpc = "done" /\ outcome.what \notin {"No API key", "prompt failed"})
       => Count("start") = 1
    /\ (vpc = "done" /\ outcome.kind = "video")
       => Count("download") = 1 /\ Count("download.done") = 1

\* C18 witness: the second call has ended with a video after its own start
\* request, the call before it having ended with a video as well.
C18_Witness ==
    /\ runs = 2 /\ earlier.kind = "video"
    /\ vpc = "done" /\ outcome.kind = "video"
    /\ Count("start") = 1 /\ Count("download") = 1

EndsDone ==
    /\ vpc = "poll"
    /\ pollData'.kind = "resolved" /\ pollData'.ok
    /\ Truthy(Get(pollData'.body, "done"))
    /\ opResponse' = Coalesce(Get(pollData'.body, "response"), Obj(<<>>))
    /\ Count("resolve")' = 1

\* The step ends pollOperation by the error a poll reports.
EndsFailed ==
    /\ vpc = "poll"
    /\ pollData'.kind = "resolved" /\ pollData'.ok
    /\ ReportsError(pollData'.body)
    /\ outcome' = Thrown("Veo error", Get(Get(pollData'.body, "error"), "message"))

\* The step ends pollOperation by the timeout, the budget being used up.
EndsTimedOut ==
    /\ vpc = "wait"
    /\ attempt' = MAX_POLL_ATTEMPTS
    /\ Count("poll") = MAX_POLL_ATTEMPTS
    /\ outcome' = TimedOut

\* The step ends pollOperation because the poll request itself failed: the
\* fetch rejected, or the status was not 2xx.
EndsPollRequestFailed ==
    /\ vpc = "poll"
    /\ \/ pollData'.kind = "rejected" /\ outcome' = Thrown("fetch failed", Undefined)
       \/ /\ pollData'.kind = "resolved" /\ ~pollData'.ok
          /\ outcome' = Thrown("Veo poll failed", Undefined)

\* pollOperation is running before the step and has ended after it.
PollingEnds == vpc \in {"poll", "wait"} /\ vpc' \notin {"poll", "wait"}

\* No poll is issued by the step unless it is the first poll of a call.
NoPollAfterEnd ==
    (vpc \notin {"poll", "wait"} /\ vpc' = "poll")
    => vpc = "start" /\ Count("poll") = 0 /\ Count("poll")' = 1

C28_CallTerminates ==
    /\ [](Count("poll") <= MAX_POLL_ATTEMPTS /\ attempt <= MAX_POLL_ATTEMPTS)
    /\ (vpc \notin {"idle", "done"}) ~> (vpc = "done" /\ outcome.kind \in {"video", "error"})

\* C28 witness: a call has ended with a video after the operation was found
\* done by the last poll of the budget.
C28_Witness ==
    /\ vpc = "done" /\ outcome.kind = "video"
    /\ Count("poll") = MAX_POLL_ATTEMPTS
    /\ attempt = MAX_POLL_ATTEMPTS - 1

\* C29: after a poll answered with done = true together with a non-empty
\* error.message, the call has failed with "Veo error" and that message, and
\* the response of the poll was neither resolved nor downloaded.
C29_ErrorBeforeDone ==
    (/\ pollData.kind = "resolved" /\ pollData.ok
     /\ Get(pollData.body, "done") = Bool(TRUE)
     /\ Get(Get(pollData.body, "error"), "message").type = "string"
     /\ Get(Get(pollData.body, "error"), "message") # Str(<<>>))
    => /\ vpc = "done"
       /\ outcome = Thrown("Veo error", Get(Get(pollData.body, "error"), "message"))
       /\ opResponse = NoPayloadYet /\ located = NotLocated
       /\ Count("resolve") = 0 /\ Count("download") = 0

\* C29 witness: a poll answered done = true with the quota message and a
\* response that holds an https locator, and the call has failed with the
\* message.
C29_Witness ==
    /\ pollData.kind = "resolved" /\ pollData.ok
    /\ Get(pollData.body, "done") = Bool(TRUE)
    /\ getVideoUri(Get(pollData.body, "response")) = HttpsUri
    /\ outcome = Thrown("Veo error", QuotaMessage)

\* -------------------------------------------------------------- uri claims
\* C9: getVideoUri returns the value of the first matcher, in the order of
\* the code, that returns one; a string at the documented path
\* generateVideoResponse.generatedSamples[0].video.uri is returned whatever
\* the later matchers would find.
C9_DocumentedPathFirst ==
    located # NotLocated =>
        LET documented ==
                Get(Get(First(Get(Get(opResponse, "generateVideoResponse"),
                                  "generatedSamples")), "video"), "uri")
            found == Matchers(opResponse)
        IN /\ IsString(documented) => located = documented
           /\ \A n \in 1..Len(found) :
                 (IsString(found[n]) /\ \A m \in 1..(n - 1) : ~IsString(found[m]))
                 => located = found[n]
           /\ (\A n \in 1..Len(found) : ~IsString(found[n])) => located = Null

\* C9 witness: an https locator at the documented path and a gs:// locator
\* under generatedVideos; the documented one has been returned.
C9_Witness ==
    /\ located = HttpsUri
    /\ Get(Get(First(Get(Get(opResponse, "generateVideoResponse"),
                          "generatedSamples")), "video"), "uri") = HttpsUri
    /\ Path2(opResponse) = GsUri

\* C10, as stated: every string getVideoUri returns starts with http or
\* gs://, and when some matcher finds a string that does, the returned value
\* is one that does.
C10_OnlyPlausibleLocators ==
    located # NotLocated =>
        LET plausible(v) ==
                /\ IsString(v)
                /\ (StartsWith(v.chars, HttpPrefix) \/ StartsWith(v.chars, GsPrefix))
            found == Matchers(opResponse)
        IN /\ IsString(located) => plausible(located)
           /\ (\E n \in 1..Len(found) : plausible(found[n])) => plausible(located)

\* getVideoUri is given an operation response of any shape.
InitUri ==
    /\ now = 0
    /\ ticks = 0
    /\ store = NoEnvelope
    /\ msg = [c \in Calls |-> NoMsg]
    /\ pc = [c \in Calls |-> "idle"]
    /\ data = [c \in Calls |-> EmptyArticles]
    /\ record = [c \in Calls |-> NoRecord]
    /\ reply = NoSent
    /\ purge = [c \in Calls |-> NoPurge]
    /\ purged = NoPurged
    /\ fault = NoFault
    /\ lost = EmptyArticles
    /\ calls = [c \in Calls |-> NoCalls]
    /\ opResponse \in Payloads
    /\ located = NotLocated
    /\ vpc = "idle"
    /\ attempt = 0
    /\ log = <<>>
    /\ startData = NoPoll
    /\ pollData = NoPoll
    /\ timer = 0
    /\ runs = 0
    /\ earlier = Pending
    /\ quiet = TRUE
    /\ outcome = Pending

NextUri == ResolveUri /\ UNCHANGED <<cacheVars, videoVars>>

SpecUri == InitUri /\ [][NextUri]_vars

====
